---- MODULE Spec2Model ----
(***************************************************************************)
(* Model of the SocialAPP mobile client (src/App.js): the availability     *)
(* prober and the login / sign-up submit handlers, and the main-tab        *)
(* screens with their post caches, fetches and like / follow handlers.     *)
(*                                                                         *)
(* Every await of the source is a suspension point: an action runs one     *)
(* handler from one suspension point to the next.  A request in flight is  *)
(* a record of `requests`, or the pc of a submit-handler instance.         *)
(***************************************************************************)
EXTENDS Integers, Sequences, FiniteSets, TLC

(***************************************************************************)
(* Bounds of the model.                                                    *)
(***************************************************************************)
\* submit-handler invocations (button presses) over both auth screens
MaxPresses == 2

(***************************************************************************)
(* Program constants.                                                      *)
(***************************************************************************)
\* const maxAttempts = 3;
maxAttempts == 3
\* setTimeout(resolve, 20000)
DelayMs == 20000

AuthScreens == {"Login", "SignUp"}
Screens == {"Login", "SignUp", "AllPosts", "Following", "Profile", "UserProfile"}

UnableMsg == "Unable to connect to the server. Please try again later."
NoTokenMsg(s) ==
    IF s = "Login" THEN "Login successful but no token received"
                   ELSE "Signup successful but no token received"
\* error.response.data.message of a rejected call whose body has a message
ServerMsg == "Invalid credentials"
\* error.message of a call that got no response
NetworkMsg == "Network Error"
\* error.message of a rejected AsyncStorage.setItem
StorageMsg == "Storage error"
\* the value of error.response.data.message when the body has no message
Undefined == "undefined"

\* what GET /status can do: answer ready, answer something else, or throw
ProbeOutcomes == {"ready", "notready", "throw"}

\* what POST auth/login or auth/signup can do
AuthOutcomes == {"token", "notoken", "rejected", "rejectedNoMsg", "noresponse"}

\* what AsyncStorage.setItem can do
SetItemOutcomes == {"ok", "fail"}

NoToken == "none"
\* a token a former session left in AsyncStorage
OldToken == "tok0"
\* the credential the service hands out
NewToken == "tok1"

VARIABLES
    route,      \* the focused route of the stack navigator
    isLoading,  \* [screen -> BOOLEAN], each screen's isLoading state
    error,      \* [auth screen -> string], each auth screen's error state
    token,      \* the value stored under 'token' in AsyncStorage
    h,          \* submit-handler invocations, by invocation number
    nextH,      \* the number of the next invocation
    tab,        \* the focused tab of the tab navigator
    mounted,    \* the main screens whose component is mounted
    focusPending, \* a 'focus' event of FollowingScreen not yet delivered
    posts,      \* AllPostsScreen's posts state
    feed,       \* FollowingScreen's feed state
    userInfo,   \* UserProfileScreen's userInfo state: <<>> is null
    userPosts,  \* UserProfileScreen's userPosts state
    requests,   \* the calls of the main screens that are in flight
    nextId,     \* the number of the next call
    srvLikes,   \* the service: [post id -> the set of users who like it]
    srvFollowing, \* the service: the users the caller follows
    lastDone,   \* history: the call whose continuation ran last
    togg,       \* history: the patches applied to feed since it was last set
    profile,    \* ProfileScreen's userInfo and userPosts state
    hist        \* history: the loads applied per scope, the follows that failed

authVars == <<error, token, h, nextH>>

mainVars == <<tab, mounted, focusPending, posts, feed, userInfo, userPosts,
              requests, nextId, srvLikes, srvFollowing, lastDone, togg,
              profile, hist>>

vars == <<route, isLoading, error, token, h, nextH, tab, mounted, focusPending,
          posts, feed, userInfo, userPosts, requests, nextId, srvLikes,
          srvFollowing, lastDone, togg, profile, hist>>

(***************************************************************************)
(* The data of the main screens.  User ids are written as strings, so that *)
(* the literal 'currentUserId' of the source can stand among them.         *)
(***************************************************************************)
PostIds == {1, 2}
\* the posts in the order the service lists them
AllIds == <<1, 2>>
\* the authenticated user
Me == "7"
\* post.user_id
Owner(p) == IF p = 1 THEN "5" ELSE "6"
\* route.params.userId of the profile that is visited
ProfileUser == "5"
\* the order in which the service lists the users of a likes array
UserOrder == <<"5", "6", "7">>
\* the literal the screens use for the current user
Placeholder == "currentUserId"

MainScreens == {"AllPosts", "Following", "Profile", "UserProfile"}
Tabs == {"AllPosts", "Following", "Profile"}
\* the tabs that list the posts of other users
ListTabs == {"AllPosts", "Following"}

\* response.data.message, as a sequence of words
LikedMsg == <<"Post", "liked.">>
UnlikedMsg == <<"Post", "unliked.">>
FollowedMsg == <<"User", "followed">>
UnfollowedMsg == <<"User", "unfollowed">>
\* a message none of the handlers tests for
OddMsg == <<"Not", "found">>
\* a body without a message field
NoMsg == <<>>

\* what a call of a main screen can do: the service answers it (ok), answers
\* with a message the handlers do not know (odd) or with no message (nomsg),
\* rejects it with an error status, or no response arrives
FetchOutcomes == {"ok", "reject", "noresponse"}
MutationOutcomes == {"ok", "odd", "nomsg", "reject", "noresponse"}
GetItemOutcomes == {"ok", "fail"}

NoResp == [status |-> "none", message |-> NoMsg, posts |-> <<>>, info |-> <<>>]
NoDone == [kind |-> "none", screen |-> "none", result |-> "none"]
NoTogg == [post |-> 0, likes0 |-> <<>>, n |-> 0]
\* useState(null) and useState([]) of ProfileScreen
NoProfile == [userInfo |-> <<>>, userPosts |-> <<>>]

\* a scope is a screen and the fetch that loads one of its states
Scopes ==
    {<<"AllPosts", "fetchPosts">>, <<"Following", "fetchFeed">>,
     <<"Profile", "fetchUserInfo">>, <<"Profile", "fetchUserPosts">>,
     <<"UserProfile", "fetchUserInfo">>, <<"UserProfile", "fetchUserPosts">>}
\* maxLoad: the latest-started load applied to each scope so far; lateLoad:
\* the scopes whose state was set last by a load started before maxLoad;
\* followFailed: a follow call of the mounted UserProfileScreen was not
\* acknowledged with a success
NoHist == [maxLoad |-> [sc \in Scopes |-> 0], lateLoad |-> {},
           followFailed |-> FALSE]

ProbeEv == [ev |-> "probe", ms |-> 0]
WaitEv(ms) == [ev |-> "wait", ms |-> ms]

IdleH == [screen |-> "Login", pc |-> "idle", isAwake |-> FALSE, attempts |-> 0,
          trace |-> <<>>, last |-> "none", authSent |-> FALSE,
          stored |-> FALSE, navigated |-> FALSE]

Insts == 1..MaxPresses

Init ==
    /\ route = "Login"
    /\ isLoading = [s \in Screens |-> FALSE]
    /\ error = [s \in AuthScreens |-> ""]
    /\ token = NoToken
    /\ h = [i \in Insts |-> IdleH]
    /\ nextH = 1
    /\ tab = "AllPosts"
    /\ mounted = {}
    /\ focusPending = FALSE
    /\ posts = <<>>
    /\ feed = <<>>
    /\ userInfo = <<>>
    /\ userPosts = <<>>
    /\ requests = {}
    /\ nextId = 1
    /\ srvLikes = [p \in PostIds |-> IF p = 2 THEN {"5"} ELSE {}]
    /\ srvFollowing = {"5", "6"}
    /\ lastDone = NoDone
    /\ togg = NoTogg
    /\ profile = NoProfile
    /\ hist = NoHist

\* checkApiStatus whose catch block answers true
checkApiStatus_CatchTrue(outcome) ==
    CASE outcome = "ready"    -> TRUE
      [] outcome = "notready" -> FALSE
      [] outcome = "throw"    -> TRUE

(***************************************************************************)
(* checkApiStatus: the boolean it resolves to, by what the request did.    *)
(***************************************************************************)
checkApiStatus(outcome) ==
    CASE outcome = "ready"    -> TRUE
      [] outcome = "notready" -> FALSE
      [] outcome = "throw"    -> FALSE

\* the while condition with the bound off by one
LoopCond_OffByOne(isAwake, attempts) ==
    (~isAwake) /\ attempts < maxAttempts - 1

\* the while condition without the test of isAwake
LoopCond_NoStop(isAwake, attempts) == attempts < maxAttempts

\* the while condition of ensureApiIsAwake
LoopCond(isAwake, attempts) == (~isAwake) /\ attempts < maxAttempts

\* the message a failed auth call leaves in the screen's error state
CatchMsg(outcome) ==
    CASE outcome = "rejected"      -> ServerMsg
      [] outcome = "rejectedNoMsg" -> Undefined
      [] outcome = "noresponse"    -> NetworkMsg

(***************************************************************************)
(* handleLogin / handleSignUp up to the first await: the button is         *)
(* disabled while isLoading, the handler sets isLoading and clears error,  *)
(* ensureApiIsAwake sets isLoading again and issues the first probe.       *)
(***************************************************************************)
Submit(s) ==
    /\ route = s
    /\ ~isLoading[s]
    /\ nextH <= MaxPresses
    /\ isLoading' = [isLoading EXCEPT ![s] = TRUE]
    /\ error' = [error EXCEPT ![s] = ""]
    /\ h' = [h EXCEPT ![nextH] = [IdleH EXCEPT !.screen = s, !.pc = "probe0",
                                               !.trace = <<ProbeEv>>]]
    /\ nextH' = nextH + 1
    /\ UNCHANGED <<route, token>>
    /\ UNCHANGED mainVars

handleLogin == Submit("Login")

handleSignUp == Submit("SignUp")

\* a prober without the retry loop
AfterProbe_NoRetry(i, awake, att, outcome) ==
    LET s == h[i].screen IN
    IF ~awake
    THEN /\ h' = [h EXCEPT ![i].pc = "done", ![i].isAwake = awake,
                           ![i].attempts = att, ![i].last = outcome]
         /\ error' = [error EXCEPT ![s] = UnableMsg]
         /\ isLoading' = [isLoading EXCEPT ![s] = FALSE]
         /\ UNCHANGED <<route, token, nextH>>
    ELSE /\ h' = [h EXCEPT ![i].pc = "post", ![i].isAwake = awake,
                           ![i].attempts = att, ![i].last = outcome,
                           ![i].authSent = TRUE]
         /\ isLoading' = [isLoading EXCEPT ![s] = FALSE]
         /\ UNCHANGED <<route, error, token, nextH>>

\* a submit handler without the early return on a false isApiAwake
AfterProbe_NoGate(i, awake, att, outcome) ==
    LET s == h[i].screen IN
    IF LoopCond(awake, att)
    THEN /\ h' = [h EXCEPT ![i].pc = "wait", ![i].isAwake = awake,
                           ![i].attempts = att, ![i].last = outcome,
                           ![i].trace = Append(@, WaitEv(DelayMs))]
         /\ UNCHANGED <<route, isLoading, error, token, nextH>>
    ELSE /\ h' = [h EXCEPT ![i].pc = "post", ![i].isAwake = awake,
                           ![i].attempts = att, ![i].last = outcome,
                           ![i].authSent = TRUE]
         /\ isLoading' = [isLoading EXCEPT ![s] = FALSE]
         /\ UNCHANGED <<route, error, token, nextH>>

(***************************************************************************)
(* The rest of ensureApiIsAwake after a probe resolved with isAwake and    *)
(* attempts (last remembers what that probe did): either the loop body     *)
(* starts its wait, or the function sets isLoading false and returns, and  *)
(* the submit handler goes on: on false it sets the error and returns, on  *)
(* true it sends the auth request.                                         *)
(***************************************************************************)
AfterProbe(i, awake, att, outcome) ==
    LET s == h[i].screen IN
    IF LoopCond(awake, att)
    THEN /\ h' = [h EXCEPT ![i].pc = "wait", ![i].isAwake = awake,
                           ![i].attempts = att, ![i].last = outcome,
                           ![i].trace = Append(@, WaitEv(DelayMs))]
         /\ UNCHANGED <<route, isLoading, error, token, nextH>>
    ELSE IF ~awake
    THEN /\ h' = [h EXCEPT ![i].pc = "done", ![i].isAwake = awake,
                           ![i].attempts = att, ![i].last = outcome]
         /\ error' = [error EXCEPT ![s] = UnableMsg]
         /\ isLoading' = [isLoading EXCEPT ![s] = FALSE]
         /\ UNCHANGED <<route, token, nextH>>
    ELSE /\ h' = [h EXCEPT ![i].pc = "post", ![i].isAwake = awake,
                           ![i].attempts = att, ![i].last = outcome,
                           ![i].authSent = TRUE]
         /\ isLoading' = [isLoading EXCEPT ![s] = FALSE]
         /\ UNCHANGED <<route, error, token, nextH>>

\* let isAwake = await checkApiStatus(); let attempts = 0;
FirstProbeReturns(i, outcome) ==
    /\ h[i].pc = "probe0"
    /\ UNCHANGED mainVars
    /\ AfterProbe(i, checkApiStatus(outcome), 0, outcome)

\* isAwake = await checkApiStatus(); attempts++;
RetryProbeReturns(i, outcome) ==
    /\ h[i].pc = "probe"
    /\ UNCHANGED mainVars
    /\ AfterProbe(i, checkApiStatus(outcome), h[i].attempts + 1, outcome)

\* the 20000 ms timer of the loop body fires and the next probe is issued
TimerFires(i) ==
    /\ h[i].pc = "wait"
    /\ h' = [h EXCEPT ![i].pc = "probe", ![i].trace = Append(@, ProbeEv)]
    /\ UNCHANGED <<route, isLoading, error, token, nextH>>
    /\ UNCHANGED mainVars

\* a handler that navigates without awaiting AsyncStorage.setItem
AuthReturns_NavFirst(i, outcome) ==
    LET s == h[i].screen IN
    /\ h[i].pc = "post"
    /\ UNCHANGED mainVars
    /\ IF outcome = "token"
       THEN /\ h' = [h EXCEPT ![i].pc = "setItem", ![i].stored = TRUE]
            /\ route' = "MainTabs"
            /\ UNCHANGED <<isLoading, error, token, nextH>>
       ELSE IF outcome = "notoken"
       THEN /\ h' = [h EXCEPT ![i].pc = "done"]
            /\ error' = [error EXCEPT ![s] = NoTokenMsg(s)]
            /\ isLoading' = [isLoading EXCEPT ![s] = FALSE]
            /\ UNCHANGED <<route, token, nextH>>
       ELSE /\ h' = [h EXCEPT ![i].pc = "done"]
            /\ error' = [error EXCEPT ![s] = CatchMsg(outcome)]
            /\ isLoading' = [isLoading EXCEPT ![s] = FALSE]
            /\ UNCHANGED <<route, token, nextH>>

(***************************************************************************)
(* The auth request resolves or rejects.                                   *)
(***************************************************************************)
AuthReturns(i, outcome) ==
    LET s == h[i].screen IN
    /\ h[i].pc = "post"
    /\ UNCHANGED mainVars
    /\ IF outcome = "token"
       THEN \* await AsyncStorage.setItem('token', response.data.token)
            /\ h' = [h EXCEPT ![i].pc = "setItem", ![i].stored = TRUE]
            /\ UNCHANGED <<route, isLoading, error, token, nextH>>
       ELSE IF outcome = "notoken"
       THEN /\ h' = [h EXCEPT ![i].pc = "done"]
            /\ error' = [error EXCEPT ![s] = NoTokenMsg(s)]
            /\ isLoading' = [isLoading EXCEPT ![s] = FALSE]
            /\ UNCHANGED <<route, token, nextH>>
       ELSE /\ h' = [h EXCEPT ![i].pc = "done"]
            /\ error' = [error EXCEPT ![s] = CatchMsg(outcome)]
            /\ isLoading' = [isLoading EXCEPT ![s] = FALSE]
            /\ UNCHANGED <<route, token, nextH>>

\* AsyncStorage.setItem resolves (then navigation.navigate('MainTabs')) or
\* rejects (then the catch block); finally sets isLoading false
SetItemReturns(i, outcome) ==
    LET s == h[i].screen IN
    /\ h[i].pc = "setItem"
    /\ UNCHANGED mainVars
    /\ IF outcome = "ok"
       THEN /\ token' = NewToken
            /\ route' = "MainTabs"
            /\ h' = [h EXCEPT ![i].pc = "done", ![i].navigated = TRUE]
            /\ UNCHANGED error
       ELSE /\ h' = [h EXCEPT ![i].pc = "done"]
            /\ error' = [error EXCEPT ![s] = StorageMsg]
            /\ UNCHANGED <<route, token>>
    /\ isLoading' = [isLoading EXCEPT ![s] = FALSE]
    /\ UNCHANGED nextH

\* the links under the forms: navigation.navigate('SignUp') / ('Login')
GoToSignUp ==
    /\ route = "Login"
    /\ route' = "SignUp"
    /\ UNCHANGED <<isLoading, error, token, h, nextH>>
    /\ UNCHANGED mainVars

GoToLogin ==
    /\ route = "SignUp"
    /\ route' = "Login"
    /\ UNCHANGED <<isLoading, error, token, h, nextH>>
    /\ UNCHANGED mainVars

NextAuth ==
    \/ handleLogin
    \/ handleSignUp
    \/ \E i \in Insts, o \in ProbeOutcomes : FirstProbeReturns(i, o)
    \/ \E i \in Insts, o \in ProbeOutcomes : RetryProbeReturns(i, o)
    \/ \E i \in Insts : TimerFires(i)
    \/ \E i \in Insts, o \in AuthOutcomes : AuthReturns(i, o)
    \/ \E i \in Insts, o \in SetItemOutcomes : SetItemReturns(i, o)
    \/ GoToSignUp
    \/ GoToLogin

SpecAuth == Init /\ [][NextAuth]_vars

(***************************************************************************)
(* The main screens.  The service is outside the repository: it answers    *)
(* each call in any of the ways the handlers distinguish.                  *)
(***************************************************************************)
\* a likes array of the service, in its order
LikesSeq(S) == SelectSeq(UserOrder, LAMBDA u : u \in S)

MkPost(p, likes) == [id |-> p, user_id |-> Owner(p), likes |-> likes]

\* the posts with the ids of the sequence ids, as the service lists them now
Page(ids) == [k \in 1..Len(ids) |-> MkPost(ids[k], LikesSeq(srvLikes[ids[k]]))]

\* GET posts, GET feed, GET users/{id}/posts, GET users/{id}
PostsData == Page(AllIds)
FeedData == Page(SelectSeq(AllIds, LAMBDA p : Owner(p) \in srvFollowing))
UserPostsData == Page(SelectSeq(AllIds, LAMBDA p : Owner(p) = ProfileUser))
UserInfoData ==
    [user_id |-> ProfileUser,
     is_following |-> ProfileUser \in srvFollowing,
     follower_count |-> IF ProfileUser \in srvFollowing THEN 1 ELSE 0]
\* GET users/me/posts, GET users/me
MyPostsData == Page(SelectSeq(AllIds, LAMBDA p : Owner(p) = Me))
MyInfoData == [user_id |-> Me, is_following |-> FALSE, follower_count |-> 0]

\* the ids of the posts of a cache, and the likes of the post with id p
IdsOf(cache) == {cache[k].id : k \in 1..Len(cache)}
LikesOf(cache, p) ==
    IF p \in IdsOf(cache)
    THEN cache[CHOOSE k \in 1..Len(cache) : cache[k].id = p].likes
    ELSE <<>>

\* Array.prototype.includes and the filter of the patch
Includes(arr, x) == \E k \in 1..Len(arr) : arr[k] = x
Without(arr, x) == SelectSeq(arr, LAMBDA y : y # x)

\* String.prototype.includes on a message, for the words the service uses
WordHas(word, part) ==
    \/ word = part
    \/ word = "unfollowed" /\ part = "followed"
MsgIncludes(msg, part) == \E k \in 1..Len(msg) : WordHas(msg[k], part)

\* a like handler that takes every answered call for a success
IsLikeSuccess_Any(resp) == resp.status = "ok"

\* the handlers' test of a like response: the call resolved and the message
\* is "Post liked." or "Post unliked."
IsLikeSuccess(resp) ==
    /\ resp.status = "ok"
    /\ (resp.message = LikedMsg \/ resp.message = UnlikedMsg)

\* handleFollow's test of a follow response (a body without a message makes
\* message.includes throw, which the catch block swallows)
IsFollowSuccess(resp) ==
    /\ resp.status = "ok"
    /\ resp.message # NoMsg
    /\ (MsgIncludes(resp.message, "followed")
          \/ MsgIncludes(resp.message, "unfollowed"))

\* the element the patch adds to or removes from likes
PatchUser == Placeholder

\* the patch of FollowingScreen.handleLike on one post
TogglePost(post) ==
    [post EXCEPT !.likes = IF Includes(post.likes, PatchUser)
                           THEN Without(post.likes, PatchUser)
                           ELSE Append(post.likes, PatchUser)]

\* a patch that toggles every post of the feed
PatchFeed_All(currentFeed, postId) ==
    [k \in 1..Len(currentFeed) |-> TogglePost(currentFeed[k])]

\* a patch that only ever adds
PatchFeed_AddOnly(currentFeed, postId) ==
    [k \in 1..Len(currentFeed) |->
        IF currentFeed[k].id = postId
        THEN [currentFeed[k] EXCEPT !.likes = Append(@, PatchUser)]
        ELSE currentFeed[k]]

\* currentFeed.map(post => post.id === postId ? {...post, likes: ...} : post)
PatchFeed(currentFeed, postId) ==
    [k \in 1..Len(currentFeed) |->
        IF currentFeed[k].id = postId
        THEN TogglePost(currentFeed[k])
        ELSE currentFeed[k]]

\* the Authorization header of a call: axios.delete(url, config) takes the
\* {} of handleFollow for its config, so its headers argument is dropped
HeaderOf(method, tok) == IF method = "delete" THEN "noheader" ELSE tok

\* a call at its first await, AsyncStorage.getItem('token')
NewReq(id, screen, kind, post, method, live) ==
    [id |-> id, screen |-> screen, kind |-> kind, post |-> post,
     method |-> method, live |-> live, stage |-> "getItem",
     auth |-> "unread", resp |-> NoResp, stale |-> FALSE]

FetchKinds == {"fetchPosts", "fetchFeed", "fetchUserInfo", "fetchUserPosts"}

\* the 'focus' listener of screen s has an event to deliver: FollowingScreen
\* is the only screen that registers one
ListenerPending(s) == s = "Following" /\ focusPending

\* the list of a screen is on display: the screen is focused and mounted and
\* renders its FlatList, not the LoadingOverlay
Visible(s) ==
    /\ s \in mounted
    /\ ~isLoading[s]
    /\ IF s = "UserProfile" THEN route = "UserProfile"
                            ELSE route = "MainTabs" /\ tab = s

\* the screen on display has been rendered but its mount effect has not run;
\* the effect runs before the user can do anything
MountPending ==
    \/ route = "MainTabs" /\ tab \notin mounted
    \/ route = "UserProfile" /\ "UserProfile" \notin mounted

\* AsyncStorage.getItem resolves and the call is sent with the token it
\* read, or rejects, which takes the call to its catch block
GetItemReturns(r, outcome) ==
    /\ r \in requests
    /\ r.stage = "getItem"
    /\ requests' = (requests \ {r}) \cup
         {IF outcome = "ok"
          THEN [r EXCEPT !.stage = "sent", !.auth = HeaderOf(r.method, token)]
          ELSE [r EXCEPT !.stage = "answered",
                         !.resp = [NoResp EXCEPT !.status = "storage"]]}
    /\ UNCHANGED <<route, isLoading, authVars, tab, mounted, focusPending, posts,
                   feed, userInfo, userPosts, nextId, srvLikes, srvFollowing,
                   lastDone, togg, profile, hist>>

\* the service's answer to a call, and what the call does to the service
Answer(r, how) ==
    IF how # "ok" /\ how # "odd" /\ how # "nomsg"
    THEN [NoResp EXCEPT !.status = how]
    ELSE CASE r.kind = "fetchPosts"     -> [NoResp EXCEPT !.status = "ok", !.posts = PostsData]
           [] r.kind = "fetchFeed"      -> [NoResp EXCEPT !.status = "ok", !.posts = FeedData]
           [] r.kind = "fetchUserPosts" ->
                [NoResp EXCEPT !.status = "ok",
                   !.posts = IF r.screen = "Profile" THEN MyPostsData
                                                     ELSE UserPostsData]
           [] r.kind = "fetchUserInfo" ->
                [NoResp EXCEPT !.status = "ok",
                   !.info = IF r.screen = "Profile" THEN <<MyInfoData>>
                                                    ELSE <<UserInfoData>>]
           [] r.kind = "like" ->
                [NoResp EXCEPT !.status = "ok",
                   !.message = CASE how = "odd"   -> OddMsg
                                 [] how = "nomsg" -> NoMsg
                                 [] OTHER -> IF Me \in srvLikes[r.post]
                                             THEN UnlikedMsg ELSE LikedMsg]
           [] r.kind = "follow" ->
                [NoResp EXCEPT !.status = "ok",
                   !.message = CASE how = "odd"   -> OddMsg
                                 [] how = "nomsg" -> NoMsg
                                 [] OTHER -> IF r.method = "put"
                                             THEN FollowedMsg ELSE UnfollowedMsg]

ServerAnswers(r, how) ==
    /\ r \in requests
    /\ r.stage = "sent"
    /\ how \in (IF r.kind \in FetchKinds THEN FetchOutcomes ELSE MutationOutcomes)
    /\ requests' = (requests \ {r}) \cup
                     {[r EXCEPT !.stage = "answered", !.resp = Answer(r, how)]}
    /\ srvLikes' = IF r.kind = "like" /\ how = "ok"
                   THEN [srvLikes EXCEPT ![r.post] =
                           IF Me \in @ THEN @ \ {Me} ELSE @ \cup {Me}]
                   ELSE srvLikes
    /\ srvFollowing' = IF r.kind = "follow" /\ how = "ok"
                       THEN IF r.method = "put"
                            THEN srvFollowing \cup {ProfileUser}
                            ELSE srvFollowing \ {ProfileUser}
                       ELSE srvFollowing
    /\ UNCHANGED <<route, isLoading, authVars, tab, mounted, focusPending, posts,
                   feed, userInfo, userPosts, nextId, lastDone, togg,
                   profile, hist>>

\* what lastDone records of the continuation of call r
Done(r, result) == [kind |-> r.kind, screen |-> r.screen, result |-> result]

\* the scope load r belongs to, and what hist records when its data is set
Scope(r) == <<r.screen, r.kind>>
Loaded(r) ==
    [hist EXCEPT !.maxLoad[Scope(r)] = IF r.id > @ THEN r.id ELSE @,
                 !.lateLoad = IF r.id < hist.maxLoad[Scope(r)]
                              THEN @ \cup {Scope(r)}
                              ELSE @ \ {Scope(r)}]

(***************************************************************************)
(* FollowingScreen.                                                        *)
(***************************************************************************)
\* fetchFeed up to its first await
fetchFeed ==
    /\ isLoading' = [isLoading EXCEPT !["Following"] = TRUE]
    /\ requests' = requests \cup
                     {NewReq(nextId, "Following", "fetchFeed", 0, "get", TRUE)}
    /\ nextId' = nextId + 1

\* the screen mounts: useEffect calls fetchFeed and registers the listener
F_Mount ==
    /\ route = "MainTabs" /\ tab = "Following"
    /\ "Following" \notin mounted
    /\ mounted' = mounted \cup {"Following"}
    /\ fetchFeed
    /\ UNCHANGED <<route, authVars, tab, focusPending, posts, feed, userInfo,
                   userPosts, srvLikes, srvFollowing, lastDone, togg,
                   profile, hist>>

\* the 'focus' listener runs
F_Focus ==
    /\ route = "MainTabs" /\ tab = "Following"
    /\ "Following" \in mounted
    /\ focusPending
    /\ focusPending' = FALSE
    /\ fetchFeed
    /\ UNCHANGED <<route, authVars, tab, mounted, posts, feed, userInfo,
                   userPosts, srvLikes, srvFollowing, lastDone, togg,
                   profile, hist>>

\* onRefresh={fetchFeed}
F_Refresh ==
    /\ Visible("Following")
    /\ fetchFeed
    /\ UNCHANGED <<route, authVars, tab, mounted, focusPending, posts, feed,
                   userInfo, userPosts, srvLikes, srvFollowing, lastDone, togg,
                   profile, hist>>

\* a fetchFeed that clears isLoading in its try block, not in finally
FetchFeedReturns_KeepBusy(r) ==
    /\ r \in requests
    /\ r.kind = "fetchFeed" /\ r.stage = "answered"
    /\ requests' = requests \ {r}
    /\ IF r.resp.status = "ok"
       THEN /\ feed' = r.resp.posts
            /\ togg' = NoTogg
            /\ hist' = Loaded(r)
            /\ lastDone' = Done(r, "applied")
            /\ isLoading' = [isLoading EXCEPT !["Following"] = FALSE]
       ELSE /\ UNCHANGED <<feed, togg, hist, isLoading>>
            /\ lastDone' = Done(r, "failed")
    /\ UNCHANGED <<route, authVars, tab, mounted, focusPending, posts, userInfo,
                   userPosts, nextId, srvLikes, srvFollowing, profile>>

\* a fetchFeed that drops the response of a load started before the load
\* whose data the feed holds
FetchFeedReturns_Guarded(r) ==
    /\ r \in requests
    /\ r.kind = "fetchFeed" /\ r.stage = "answered"
    /\ requests' = requests \ {r}
    /\ IF r.resp.status = "ok" /\ r.id > hist.maxLoad[Scope(r)]
       THEN /\ feed' = r.resp.posts
            /\ togg' = NoTogg
            /\ hist' = Loaded(r)
            /\ lastDone' = Done(r, "applied")
       ELSE /\ UNCHANGED <<feed, togg, hist>>
            /\ lastDone' = Done(r, "failed")
    /\ isLoading' = [isLoading EXCEPT !["Following"] = FALSE]
    /\ UNCHANGED <<route, authVars, tab, mounted, focusPending, posts, userInfo,
                   userPosts, nextId, srvLikes, srvFollowing, profile>>

\* the rest of fetchFeed: setFeed(response.data) or the catch block, then
\* finally setIsLoading(false)
FetchFeedReturns(r) ==
    /\ r \in requests
    /\ r.kind = "fetchFeed" /\ r.stage = "answered"
    /\ requests' = requests \ {r}
    /\ IF r.resp.status = "ok"
       THEN /\ feed' = r.resp.posts
            /\ togg' = NoTogg
            /\ hist' = Loaded(r)
            /\ lastDone' = Done(r, "applied")
       ELSE /\ UNCHANGED <<feed, togg, hist>>
            /\ lastDone' = Done(r, "failed")
    /\ isLoading' = [isLoading EXCEPT !["Following"] = FALSE]
    /\ UNCHANGED <<route, authVars, tab, mounted, focusPending, posts, userInfo,
                   userPosts, nextId, srvLikes, srvFollowing, profile>>

\* handleLike(item.id) of a post of the list, up to its first await
F_PressLike(p) ==
    /\ Visible("Following")
    /\ p \in IdsOf(feed)
    /\ requests' = requests \cup
                     {NewReq(nextId, "Following", "like", p, "put", TRUE)}
    /\ nextId' = nextId + 1
    /\ UNCHANGED <<route, isLoading, authVars, tab, mounted, focusPending, posts,
                   feed, userInfo, userPosts, srvLikes, srvFollowing, lastDone,
                   togg, profile, hist>>

\* the rest of handleLike: on a recognized message the patch of the feed
\* (togg and the stale marks remember it), else nothing
F_LikeReturns(r) ==
    /\ r \in requests
    /\ r.kind = "like" /\ r.screen = "Following" /\ r.stage = "answered"
    /\ IF IsLikeSuccess(r.resp)
       THEN /\ feed' = PatchFeed(feed, r.post)
            /\ togg' = IF togg.n > 0 /\ togg.post = r.post
                       THEN [togg EXCEPT !.n = @ + 1]
                       ELSE [post |-> r.post, likes0 |-> LikesOf(feed, r.post),
                             n |-> 1]
            /\ requests' = {IF q.kind = "fetchFeed"
                            THEN [q EXCEPT !.stale = TRUE] ELSE q :
                            q \in requests \ {r}}
            /\ lastDone' = Done(r, "applied")
       ELSE /\ UNCHANGED <<feed, togg>>
            /\ requests' = requests \ {r}
            /\ lastDone' = Done(r, IF r.resp.status = "ok" THEN "ignored"
                                                           ELSE "failed")
    /\ UNCHANGED <<route, isLoading, authVars, tab, mounted, focusPending, posts,
                   userInfo, userPosts, nextId, srvLikes, srvFollowing,
                   profile, hist>>

(***************************************************************************)
(* AllPostsScreen.                                                         *)
(***************************************************************************)
\* fetchPosts up to its first await
fetchPosts ==
    /\ isLoading' = [isLoading EXCEPT !["AllPosts"] = TRUE]
    /\ requests' = requests \cup
                     {NewReq(nextId, "AllPosts", "fetchPosts", 0, "get", TRUE)}
    /\ nextId' = nextId + 1

\* the screen mounts: useEffect calls fetchPosts
A_Mount ==
    /\ route = "MainTabs" /\ tab = "AllPosts"
    /\ "AllPosts" \notin mounted
    /\ mounted' = mounted \cup {"AllPosts"}
    /\ fetchPosts
    /\ UNCHANGED <<route, authVars, tab, focusPending, posts, feed, userInfo,
                   userPosts, srvLikes, srvFollowing, lastDone, togg,
                   profile, hist>>

\* onRefresh={fetchPosts}
A_Refresh ==
    /\ Visible("AllPosts")
    /\ fetchPosts
    /\ UNCHANGED <<route, authVars, tab, mounted, focusPending, posts, feed,
                   userInfo, userPosts, srvLikes, srvFollowing, lastDone, togg,
                   profile, hist>>

\* a fetchPosts that clears isLoading in its try block, not in finally
FetchPostsReturns_KeepBusy(r) ==
    /\ r \in requests
    /\ r.kind = "fetchPosts" /\ r.stage = "answered"
    /\ requests' = requests \ {r}
    /\ IF r.resp.status = "ok"
       THEN /\ posts' = r.resp.posts
            /\ hist' = Loaded(r)
            /\ lastDone' = Done(r, "applied")
            /\ isLoading' = [isLoading EXCEPT !["AllPosts"] = FALSE]
       ELSE /\ UNCHANGED <<posts, hist, isLoading>>
            /\ lastDone' = Done(r, "failed")
    /\ UNCHANGED <<route, authVars, tab, mounted, focusPending, feed, userInfo,
                   userPosts, nextId, srvLikes, srvFollowing, togg, profile>>

\* the rest of fetchPosts
FetchPostsReturns(r) ==
    /\ r \in requests
    /\ r.kind = "fetchPosts" /\ r.stage = "answered"
    /\ requests' = requests \ {r}
    /\ IF r.resp.status = "ok"
       THEN /\ posts' = r.resp.posts
            /\ hist' = Loaded(r)
            /\ lastDone' = Done(r, "applied")
       ELSE /\ UNCHANGED <<posts, hist>>
            /\ lastDone' = Done(r, "failed")
    /\ isLoading' = [isLoading EXCEPT !["AllPosts"] = FALSE]
    /\ UNCHANGED <<route, authVars, tab, mounted, focusPending, feed, userInfo,
                   userPosts, nextId, srvLikes, srvFollowing, togg, profile>>

\* handleLike(item.id) of a post of the list, up to its first await
A_PressLike(p) ==
    /\ Visible("AllPosts")
    /\ p \in IdsOf(posts)
    /\ requests' = requests \cup
                     {NewReq(nextId, "AllPosts", "like", p, "put", TRUE)}
    /\ nextId' = nextId + 1
    /\ UNCHANGED <<route, isLoading, authVars, tab, mounted, focusPending, posts,
                   feed, userInfo, userPosts, srvLikes, srvFollowing, lastDone,
                   togg, profile, hist>>

\* the rest of handleLike: on a recognized message fetchPosts(), else nothing
A_LikeReturns(r) ==
    /\ r \in requests
    /\ r.kind = "like" /\ r.screen = "AllPosts" /\ r.stage = "answered"
    /\ IF IsLikeSuccess(r.resp)
       THEN /\ isLoading' = [isLoading EXCEPT !["AllPosts"] = TRUE]
            /\ requests' = (requests \ {r}) \cup
                 {NewReq(nextId, "AllPosts", "fetchPosts", 0, "get", TRUE)}
            /\ nextId' = nextId + 1
            /\ lastDone' = Done(r, "applied")
       ELSE /\ requests' = requests \ {r}
            /\ lastDone' = Done(r, IF r.resp.status = "ok" THEN "ignored"
                                                           ELSE "failed")
            /\ UNCHANGED <<isLoading, nextId>>
    /\ UNCHANGED <<route, authVars, tab, mounted, focusPending, posts, feed,
                   userInfo, userPosts, srvLikes, srvFollowing, togg,
                   profile, hist>>

(***************************************************************************)
(* UserProfileScreen.  A call of an instance that has been unmounted still *)
(* completes, but its state setters do nothing (live is FALSE).            *)
(***************************************************************************)
\* the header of a post of ProfileUser is pressed in the list of tab s
OpenUserProfile(s) ==
    /\ s \in ListTabs
    /\ Visible(s)
    /\ \E k \in 1..Len(IF s = "AllPosts" THEN posts ELSE feed) :
          (IF s = "AllPosts" THEN posts ELSE feed)[k].user_id = ProfileUser
    /\ route' = "UserProfile"
    /\ UNCHANGED <<isLoading, authVars, mainVars>>

\* the screen mounts: useEffect calls fetchUserInfo and fetchUserPosts
UP_Mount ==
    /\ route = "UserProfile"
    /\ "UserProfile" \notin mounted
    /\ mounted' = mounted \cup {"UserProfile"}
    /\ isLoading' = [isLoading EXCEPT !["UserProfile"] = TRUE]
    /\ requests' = requests \cup
         {NewReq(nextId, "UserProfile", "fetchUserInfo", 0, "get", TRUE),
          NewReq(nextId + 1, "UserProfile", "fetchUserPosts", 0, "get", TRUE)}
    /\ nextId' = nextId + 2
    /\ hist' = [hist EXCEPT !.followFailed = FALSE]
    /\ UNCHANGED <<route, authVars, tab, focusPending, posts, feed, userInfo,
                   userPosts, srvLikes, srvFollowing, lastDone, togg, profile>>

\* the rest of fetchUserInfo
FetchUserInfoReturns(r) ==
    /\ r \in requests
    /\ r.kind = "fetchUserInfo" /\ r.screen = "UserProfile"
    /\ r.stage = "answered"
    /\ requests' = requests \ {r}
    /\ lastDone' = Done(r, IF r.resp.status = "ok" THEN "applied" ELSE "failed")
    /\ IF r.live
       THEN /\ userInfo' = IF r.resp.status = "ok" THEN r.resp.info ELSE userInfo
            /\ hist' = IF r.resp.status = "ok" THEN Loaded(r) ELSE hist
            /\ isLoading' = [isLoading EXCEPT !["UserProfile"] = FALSE]
       ELSE UNCHANGED <<userInfo, hist, isLoading>>
    /\ UNCHANGED <<route, authVars, tab, mounted, focusPending, posts, feed,
                   userPosts, nextId, srvLikes, srvFollowing, togg, profile>>

\* the rest of fetchUserPosts
FetchUserPostsReturns(r) ==
    /\ r \in requests
    /\ r.kind = "fetchUserPosts" /\ r.screen = "UserProfile"
    /\ r.stage = "answered"
    /\ requests' = requests \ {r}
    /\ lastDone' = Done(r, IF r.resp.status = "ok" THEN "applied" ELSE "failed")
    /\ IF r.live
       THEN /\ userPosts' = IF r.resp.status = "ok" THEN r.resp.posts
                                                    ELSE userPosts
            /\ hist' = IF r.resp.status = "ok" THEN Loaded(r) ELSE hist
            /\ isLoading' = [isLoading EXCEPT !["UserProfile"] = FALSE]
       ELSE UNCHANGED <<userPosts, hist, isLoading>>
    /\ UNCHANGED <<route, authVars, tab, mounted, focusPending, posts, feed,
                   userInfo, nextId, srvLikes, srvFollowing, togg, profile>>

\* handleFollow up to its first await; the method is chosen from the
\* userInfo the handler closed over
UP_PressFollow ==
    /\ Visible("UserProfile")
    /\ userInfo # <<>>
    /\ requests' = requests \cup
         {NewReq(nextId, "UserProfile", "follow", 0,
                 IF userInfo[1].is_following THEN "delete" ELSE "put", TRUE)}
    /\ nextId' = nextId + 1
    /\ UNCHANGED <<route, isLoading, authVars, tab, mounted, focusPending, posts,
                   feed, userInfo, userPosts, srvLikes, srvFollowing, lastDone,
                   togg, profile, hist>>

\* the rest of handleFollow: on a recognized message is_following is negated
UP_FollowReturns(r) ==
    /\ r \in requests
    /\ r.kind = "follow" /\ r.stage = "answered"
    /\ requests' = requests \ {r}
    /\ IF IsFollowSuccess(r.resp)
       THEN /\ userInfo' = IF r.live /\ userInfo # <<>>
                           THEN <<[userInfo[1] EXCEPT !.is_following = ~@]>>
                           ELSE userInfo
            /\ lastDone' = Done(r, "applied")
            /\ UNCHANGED hist
       ELSE /\ UNCHANGED userInfo
            /\ hist' = IF r.live THEN [hist EXCEPT !.followFailed = TRUE]
                                 ELSE hist
            /\ lastDone' = Done(r, IF r.resp.status = "ok" THEN "ignored"
                                                           ELSE "failed")
    /\ UNCHANGED <<route, isLoading, authVars, tab, mounted, focusPending, posts,
                   feed, userPosts, nextId, srvLikes, srvFollowing, togg,
                   profile>>

\* handleLike(item.id) of a post of the list, up to its first await
UP_PressLike(p) ==
    /\ Visible("UserProfile")
    /\ p \in IdsOf(userPosts)
    /\ requests' = requests \cup
                     {NewReq(nextId, "UserProfile", "like", p, "put", TRUE)}
    /\ nextId' = nextId + 1
    /\ UNCHANGED <<route, isLoading, authVars, tab, mounted, focusPending, posts,
                   feed, userInfo, userPosts, srvLikes, srvFollowing, lastDone,
                   togg, profile, hist>>

\* the rest of handleLike: on a recognized message fetchUserPosts()
UP_LikeReturns(r) ==
    /\ r \in requests
    /\ r.kind = "like" /\ r.screen = "UserProfile" /\ r.stage = "answered"
    /\ IF IsLikeSuccess(r.resp)
       THEN /\ isLoading' = IF r.live
                            THEN [isLoading EXCEPT !["UserProfile"] = TRUE]
                            ELSE isLoading
            /\ requests' = (requests \ {r}) \cup
                 {NewReq(nextId, "UserProfile", "fetchUserPosts", 0, "get",
                         r.live)}
            /\ nextId' = nextId + 1
            /\ lastDone' = Done(r, "applied")
       ELSE /\ requests' = requests \ {r}
            /\ lastDone' = Done(r, IF r.resp.status = "ok" THEN "ignored"
                                                           ELSE "failed")
            /\ UNCHANGED <<isLoading, nextId>>
    /\ UNCHANGED <<route, authVars, tab, mounted, focusPending, posts, feed,
                   userInfo, userPosts, srvLikes, srvFollowing, togg,
                   profile, hist>>

(***************************************************************************)
(* ProfileScreen, the third tab.  Its like button calls a handleLike the   *)
(* component does not define, so pressing it changes no state; the screen  *)
(* has no focus listener and no pull-to-refresh.                           *)
(***************************************************************************)
\* the screen mounts: useEffect calls fetchUserInfo and fetchUserPosts
P_Mount ==
    /\ route = "MainTabs" /\ tab = "Profile"
    /\ "Profile" \notin mounted
    /\ mounted' = mounted \cup {"Profile"}
    /\ isLoading' = [isLoading EXCEPT !["Profile"] = TRUE]
    /\ requests' = requests \cup
         {NewReq(nextId, "Profile", "fetchUserInfo", 0, "get", TRUE),
          NewReq(nextId + 1, "Profile", "fetchUserPosts", 0, "get", TRUE)}
    /\ nextId' = nextId + 2
    /\ UNCHANGED <<route, authVars, tab, focusPending, posts, feed, userInfo,
                   userPosts, srvLikes, srvFollowing, lastDone, togg, profile,
                   hist>>

\* the rest of ProfileScreen's fetchUserInfo
P_FetchUserInfoReturns(r) ==
    /\ r \in requests
    /\ r.kind = "fetchUserInfo" /\ r.screen = "Profile"
    /\ r.stage = "answered"
    /\ requests' = requests \ {r}
    /\ IF r.resp.status = "ok"
       THEN /\ profile' = [profile EXCEPT !.userInfo = r.resp.info]
            /\ hist' = Loaded(r)
            /\ lastDone' = Done(r, "applied")
       ELSE /\ UNCHANGED <<profile, hist>>
            /\ lastDone' = Done(r, "failed")
    /\ isLoading' = [isLoading EXCEPT !["Profile"] = FALSE]
    /\ UNCHANGED <<route, authVars, tab, mounted, focusPending, posts, feed,
                   userInfo, userPosts, nextId, srvLikes, srvFollowing, togg>>

\* the rest of ProfileScreen's fetchUserPosts
P_FetchUserPostsReturns(r) ==
    /\ r \in requests
    /\ r.kind = "fetchUserPosts" /\ r.screen = "Profile"
    /\ r.stage = "answered"
    /\ requests' = requests \ {r}
    /\ IF r.resp.status = "ok"
       THEN /\ profile' = [profile EXCEPT !.userPosts = r.resp.posts]
            /\ hist' = Loaded(r)
            /\ lastDone' = Done(r, "applied")
       ELSE /\ UNCHANGED <<profile, hist>>
            /\ lastDone' = Done(r, "failed")
    /\ isLoading' = [isLoading EXCEPT !["Profile"] = FALSE]
    /\ UNCHANGED <<route, authVars, tab, mounted, focusPending, posts, feed,
                   userInfo, userPosts, nextId, srvLikes, srvFollowing, togg>>

\* the back button of the header: the screen is unmounted and its state is
\* gone, the tab under it regains focus
Back ==
    /\ route = "UserProfile"
    /\ ~MountPending
    /\ route' = "MainTabs"
    /\ mounted' = mounted \ {"UserProfile"}
    /\ userInfo' = <<>>
    /\ userPosts' = <<>>
    /\ isLoading' = [isLoading EXCEPT !["UserProfile"] = FALSE]
    /\ requests' = {IF q.screen = "UserProfile" THEN [q EXCEPT !.live = FALSE]
                    ELSE q : q \in requests}
    /\ focusPending' = (focusPending \/ tab = "Following")
    /\ UNCHANGED <<authVars, tab, posts, feed, nextId, srvLikes, srvFollowing,
                   lastDone, togg, profile, hist>>

\* a tab of the tab bar is pressed
SwitchTab(t) ==
    /\ route = "MainTabs"
    /\ ~MountPending
    /\ t \in Tabs /\ t # tab
    /\ tab' = t
    /\ focusPending' = (focusPending \/ t = "Following")
    /\ UNCHANGED <<route, isLoading, authVars, mounted, posts, feed, userInfo,
                   userPosts, requests, nextId, srvLikes, srvFollowing,
                   lastDone, togg, profile, hist>>

(***************************************************************************)
(* The main screens after a login.  The runs checked start from the state  *)
(* right after the login (no tab screen has mounted yet) and from the      *)
(* states of rest a user reaches from there: the feeds loaded from the     *)
(* service, the Following tab or the profile of ProfileUser on display.    *)
(***************************************************************************)
\* events that start a call in the main screens, in one run
MaxCalls == 1
\* events that start a call in FollowingScreen, in one run
MaxFeedCalls == 2

LoggedIn ==
    [IdleH EXCEPT !.pc = "done", !.isAwake = TRUE, !.trace = <<ProbeEv>>,
                  !.last = "ready", !.authSent = TRUE, !.stored = TRUE,
                  !.navigated = TRUE]

\* what every start state of the main screens shares
InitShared ==
    /\ isLoading = [s \in Screens |-> FALSE]
    /\ error = [s \in AuthScreens |-> ""]
    /\ token = NewToken
    /\ h = [i \in Insts |-> IF i = 1 THEN LoggedIn ELSE IdleH]
    /\ nextH = 2
    /\ focusPending = FALSE
    /\ requests = {}
    /\ nextId = 1
    /\ srvLikes = [p \in PostIds |-> IF p = 2 THEN {"5"} ELSE {}]
    /\ srvFollowing = {"5", "6"}
    /\ lastDone = NoDone
    /\ togg = NoTogg
    /\ profile = NoProfile
    /\ hist = NoHist

\* right after navigation.navigate('MainTabs')
InitFresh ==
    /\ InitShared
    /\ route = "MainTabs" /\ tab = "AllPosts"
    /\ mounted = {}
    /\ posts = <<>> /\ feed = <<>>
    /\ userInfo = <<>> /\ userPosts = <<>>

\* both tabs have loaded, the Following tab is on display
InitOnFollowing ==
    /\ InitShared
    /\ route = "MainTabs" /\ tab = "Following"
    /\ mounted = {"AllPosts", "Following"}
    /\ posts = PostsData /\ feed = FeedData
    /\ userInfo = <<>> /\ userPosts = <<>>

\* the profile of ProfileUser, opened from the loaded AllPosts tab, has loaded
InitOnUserProfile ==
    /\ InitShared
    /\ route = "UserProfile" /\ tab = "AllPosts"
    /\ mounted = {"AllPosts", "UserProfile"}
    /\ posts = PostsData /\ feed = <<>>
    /\ userInfo = <<UserInfoData>> /\ userPosts = UserPostsData

\* the AllPosts tab has loaded and is on display, nothing else has mounted
InitOnAllPosts ==
    /\ InitShared
    /\ route = "MainTabs" /\ tab = "AllPosts"
    /\ mounted = {"AllPosts"}
    /\ posts = PostsData /\ feed = <<>>
    /\ userInfo = <<>> /\ userPosts = <<>>

\* the Following tab regains focus with its loaded feed after the service
\* has recorded, from the profile screen, that ProfileUser was unfollowed
InitAfterUnfollow ==
    /\ isLoading = [s \in Screens |-> FALSE]
    /\ error = [s \in AuthScreens |-> ""]
    /\ token = NewToken
    /\ h = [i \in Insts |-> IF i = 1 THEN LoggedIn ELSE IdleH]
    /\ nextH = 2
    /\ focusPending = TRUE
    /\ requests = {}
    /\ nextId = 1
    /\ srvLikes = [p \in PostIds |-> IF p = 2 THEN {"5"} ELSE {}]
    /\ srvFollowing = {"6"}
    /\ lastDone = NoDone
    /\ togg = NoTogg
    /\ profile = NoProfile
    /\ hist = NoHist
    /\ route = "MainTabs" /\ tab = "Following"
    /\ mounted = {"AllPosts", "Following"}
    /\ posts = PostsData
    /\ feed = [k \in 1..Len(AllIds) |->
                 MkPost(AllIds[k], LikesSeq(srvLikes[AllIds[k]]))]
    /\ userInfo = <<>> /\ userPosts = <<>>

\* the Following tab is on display with the feed it loaded after the user
\* liked post 1 (from the AllPosts tab)
InitOnFollowingLiked ==
    /\ isLoading = [s \in Screens |-> FALSE]
    /\ error = [s \in AuthScreens |-> ""]
    /\ token = NewToken
    /\ h = [i \in Insts |-> IF i = 1 THEN LoggedIn ELSE IdleH]
    /\ nextH = 2
    /\ focusPending = FALSE
    /\ requests = {}
    /\ nextId = 1
    /\ srvLikes = [p \in PostIds |-> IF p = 2 THEN {"5"} ELSE {Me}]
    /\ srvFollowing = {"5", "6"}
    /\ lastDone = NoDone
    /\ togg = NoTogg
    /\ profile = NoProfile
    /\ hist = NoHist
    /\ route = "MainTabs" /\ tab = "Following"
    /\ mounted = {"AllPosts", "Following"}
    /\ posts = PostsData /\ feed = FeedData
    /\ userInfo = <<>> /\ userPosts = <<>>

\* the profile of ProfileUser, whom the user does not follow, opened from
\* the loaded AllPosts tab, has loaded
InitOnUserProfileNew ==
    /\ isLoading = [s \in Screens |-> FALSE]
    /\ error = [s \in AuthScreens |-> ""]
    /\ token = NewToken
    /\ h = [i \in Insts |-> IF i = 1 THEN LoggedIn ELSE IdleH]
    /\ nextH = 2
    /\ focusPending = FALSE
    /\ requests = {}
    /\ nextId = 1
    /\ srvLikes = [p \in PostIds |-> IF p = 2 THEN {"5"} ELSE {}]
    /\ srvFollowing = {"6"}
    /\ lastDone = NoDone
    /\ togg = NoTogg
    /\ profile = NoProfile
    /\ hist = NoHist
    /\ route = "UserProfile" /\ tab = "AllPosts"
    /\ mounted = {"AllPosts", "UserProfile"}
    /\ posts = PostsData /\ feed = <<>>
    /\ userInfo = <<UserInfoData>> /\ userPosts = UserPostsData

InitMain ==
    InitFresh \/ InitOnAllPosts \/ InitOnFollowing \/ InitOnUserProfile

InitFollowing ==
    \/ InitOnAllPosts
    \/ InitOnFollowing
    \/ InitAfterUnfollow
    \/ InitOnFollowingLiked

\* the continuations of the calls in flight
Continue ==
    \/ \E r \in requests, o \in GetItemOutcomes : GetItemReturns(r, o)
    \/ \E r \in requests, o \in MutationOutcomes : ServerAnswers(r, o)
    \/ \E r \in requests : FetchPostsReturns(r)
    \/ \E r \in requests : FetchFeedReturns(r)
    \/ \E r \in requests : FetchUserInfoReturns(r)
    \/ \E r \in requests : FetchUserPostsReturns(r)
    \/ \E r \in requests : A_LikeReturns(r)
    \/ \E r \in requests : F_LikeReturns(r)
    \/ \E r \in requests : UP_LikeReturns(r)
    \/ \E r \in requests : UP_FollowReturns(r)
    \/ \E r \in requests : P_FetchUserInfoReturns(r)
    \/ \E r \in requests : P_FetchUserPostsReturns(r)

\* the events of FollowingScreen
FollowingEvents ==
    \/ F_Mount
    \/ F_Focus
    \/ F_Refresh
    \/ \E p \in PostIds : F_PressLike(p)

\* the events of the other screens
OtherEvents ==
    \/ A_Mount
    \/ A_Refresh
    \/ \E p \in PostIds : A_PressLike(p)
    \/ UP_Mount
    \/ UP_PressFollow
    \/ \E p \in PostIds : UP_PressLike(p)
    \/ P_Mount

Navigate ==
    \/ \E t \in Tabs : SwitchTab(t)
    \/ \E s \in Tabs : OpenUserProfile(s)
    \/ Back

NextMain ==
    \/ Continue
    \/ nextId <= MaxCalls /\ FollowingEvents
    \/ nextId <= MaxCalls /\ OtherEvents
    \/ Navigate

SpecMain == InitMain /\ [][NextMain]_vars

\* FollowingScreen alone: its events, the calls in flight and the tab bar
NextFollowing ==
    \/ \E r \in requests, o \in GetItemOutcomes : GetItemReturns(r, o)
    \/ \E r \in requests, o \in MutationOutcomes : ServerAnswers(r, o)
    \/ \E r \in requests : FetchFeedReturns(r)
    \/ \E r \in requests : F_LikeReturns(r)
    \/ nextId <= MaxFeedCalls /\ FollowingEvents
    \/ \E t \in ListTabs : SwitchTab(t)

SpecFollowing == InitFollowing /\ [][NextFollowing]_vars

\* events that start a call in FollowingScreen once it has loaded, in one run
MaxLoadCalls == 3

\* the loaded FollowingScreen: a like and the loads that focus and
\* pull-to-refresh start around it
NextFeedLoads ==
    \/ \E r \in requests, o \in GetItemOutcomes : GetItemReturns(r, o)
    \/ \E r \in requests, o \in MutationOutcomes : ServerAnswers(r, o)
    \/ \E r \in requests : FetchFeedReturns(r)
    \/ \E r \in requests : F_LikeReturns(r)
    \/ nextId <= MaxLoadCalls /\ F_Focus
    \/ nextId <= MaxLoadCalls /\ F_Refresh
    \/ nextId <= MaxLoadCalls /\ \E p \in PostIds : F_PressLike(p)
    \/ \E t \in ListTabs : SwitchTab(t)

SpecFeedLoads == InitOnFollowing /\ [][NextFeedLoads]_vars

\* events that start a call in UserProfileScreen, in one run
MaxProfileCalls == 2

\* UserProfileScreen alone: its events, the calls in flight, the back button
\* and the way back in from the AllPosts tab
NextUserProfile ==
    \/ \E r \in requests, o \in GetItemOutcomes : GetItemReturns(r, o)
    \/ \E r \in requests, o \in MutationOutcomes : ServerAnswers(r, o)
    \/ \E r \in requests : FetchUserInfoReturns(r)
    \/ \E r \in requests : FetchUserPostsReturns(r)
    \/ \E r \in requests : UP_FollowReturns(r)
    \/ \E r \in requests : UP_LikeReturns(r)
    \/ nextId <= MaxProfileCalls /\ UP_Mount
    \/ nextId <= MaxProfileCalls /\ UP_PressFollow
    \/ nextId <= MaxProfileCalls /\ \E p \in PostIds : UP_PressLike(p)
    \/ \E s \in ListTabs : OpenUserProfile(s)
    \/ Back

InitUserProfile == InitOnUserProfile \/ InitOnUserProfileNew

SpecUserProfile == InitUserProfile /\ [][NextUserProfile]_vars

(***************************************************************************)
(* A login followed by the first calls of AllPostsScreen, the initial tab. *)
(* AsyncStorage holds nothing or the token of a former session.            *)
(***************************************************************************)
\* events that start a call in AllPostsScreen after the login, in one run
MaxLoginCalls == 2

InitLogin ==
    /\ route = "Login"
    /\ isLoading = [s \in Screens |-> FALSE]
    /\ error = [s \in AuthScreens |-> ""]
    /\ token \in {NoToken, OldToken}
    /\ h = [i \in Insts |-> IdleH]
    /\ nextH = 1
    /\ tab = "AllPosts"
    /\ mounted = {}
    /\ focusPending = FALSE
    /\ posts = <<>> /\ feed = <<>>
    /\ userInfo = <<>> /\ userPosts = <<>>
    /\ requests = {}
    /\ nextId = 1
    /\ srvLikes = [p \in PostIds |-> IF p = 2 THEN {"5"} ELSE {}]
    /\ srvFollowing = {"5", "6"}
    /\ lastDone = NoDone
    /\ togg = NoTogg
    /\ profile = NoProfile
    /\ hist = NoHist

NextLogin ==
    \/ handleLogin
    \/ \E i \in Insts, o \in ProbeOutcomes : FirstProbeReturns(i, o)
    \/ \E i \in Insts, o \in ProbeOutcomes : RetryProbeReturns(i, o)
    \/ \E i \in Insts : TimerFires(i)
    \/ \E i \in Insts, o \in AuthOutcomes : AuthReturns(i, o)
    \/ \E i \in Insts, o \in SetItemOutcomes : SetItemReturns(i, o)
    \/ nextId <= MaxLoginCalls /\ A_Mount
    \/ nextId <= MaxLoginCalls /\ A_Refresh
    \/ \E r \in requests, o \in GetItemOutcomes : GetItemReturns(r, o)
    \/ \E r \in requests, o \in FetchOutcomes : ServerAnswers(r, o)
    \/ \E r \in requests : FetchPostsReturns(r)

SpecLogin == InitLogin /\ [][NextLogin]_vars

(***************************************************************************)
(* The prober and the submit handler of LoginScreen under the scheduling   *)
(* of the runtime: a timer that was set fires, and an awaited status probe *)
(* resolves or rejects (checkApiStatus catches every rejection).           *)
(***************************************************************************)
\* ensureApiIsAwake of invocation i goes on from its await
ProberStep(i) ==
    \/ \E o \in ProbeOutcomes : FirstProbeReturns(i, o)
    \/ \E o \in ProbeOutcomes : RetryProbeReturns(i, o)
    \/ TimerFires(i)

NextProber ==
    \/ handleLogin
    \/ \E i \in Insts, o \in ProbeOutcomes : FirstProbeReturns(i, o)
    \/ \E i \in Insts, o \in ProbeOutcomes : RetryProbeReturns(i, o)
    \/ \E i \in Insts : TimerFires(i)
    \/ \E i \in Insts, o \in AuthOutcomes : AuthReturns(i, o)
    \/ \E i \in Insts, o \in SetItemOutcomes : SetItemReturns(i, o)

SpecProber ==
    /\ Init
    /\ [][NextProber]_vars
    /\ \A i \in Insts : WF_vars(ProberStep(i))

(***************************************************************************)
(* The auth screens and the main screens together: a run starts at the     *)
(* Login screen or from a state of rest of the loaded main screens.        *)
(***************************************************************************)
\* submit-handler invocations and main-screen events that start a call, in
\* one run of the whole app, the login of a start state of rest included
MaxBusyEvents == 2

BusyBudget == (nextH - 1) + (nextId - 1) < MaxBusyEvents

NextBusy ==
    \/ BusyBudget /\ handleLogin
    \/ BusyBudget /\ handleSignUp
    \/ \E i \in Insts, o \in ProbeOutcomes : FirstProbeReturns(i, o)
    \/ \E i \in Insts, o \in ProbeOutcomes : RetryProbeReturns(i, o)
    \/ \E i \in Insts : TimerFires(i)
    \/ \E i \in Insts, o \in AuthOutcomes : AuthReturns(i, o)
    \/ \E i \in Insts, o \in SetItemOutcomes : SetItemReturns(i, o)
    \/ GoToSignUp
    \/ GoToLogin
    \/ Continue
    \/ BusyBudget /\ FollowingEvents
    \/ BusyBudget /\ OtherEvents
    \/ Navigate

InitBusy == Init \/ InitOnAllPosts \/ InitOnFollowing \/ InitOnUserProfile

SpecBusy == InitBusy /\ [][NextBusy]_vars

Next == NextAuth \/ NextMain

Spec == Init /\ [][Next]_vars

(***************************************************************************)
(* Properties of the availability prober and the submit handlers.          *)
(***************************************************************************)
Probes(tr) == Cardinality({k \in 1..Len(tr) : tr[k].ev = "probe"})
Waits(tr) == Cardinality({k \in 1..Len(tr) : tr[k].ev = "wait"})

\* k probes with a wait of 20000 ms between each two consecutive ones
RECURSIVE ExpectedTrace(_)
ExpectedTrace(k) ==
    IF k <= 1 THEN <<[ev |-> "probe", ms |-> 0]>>
    ELSE ExpectedTrace(k - 1)
           \o <<[ev |-> "wait", ms |-> 20000], [ev |-> "probe", ms |-> 0]>>

\* ensureApiIsAwake of invocation i has returned
Returned(i) == h[i].pc \in {"post", "setItem", "done"}
ReturnedFalse(i) == Returned(i) /\ ~h[i].isAwake
ReturnedTrue(i) == Returned(i) /\ h[i].isAwake

\* invocation i is awaiting a status probe in this state
Probing(i) == h[i].pc \in {"probe0", "probe"}

\* C1 as stated: when no probe reports ready, ensureApiIsAwake returns false
\* after exactly 3 probes, with a 20-second wait between consecutive probes.
C1_ThreeProbes ==
    \A i \in Insts : ReturnedFalse(i) => h[i].trace = ExpectedTrace(3)

\* C1 amended: when no probe reports ready, ensureApiIsAwake returns false
\* after exactly 4 probes (the first one and maxAttempts = 3 retries), with a
\* 20-second wait between each two consecutive probes.
C1_FourProbes ==
    \A i \in Insts :
        ReturnedFalse(i) =>
            /\ h[i].trace = ExpectedTrace(4)
            /\ Probes(h[i].trace) = 4
            /\ Waits(h[i].trace) = 3

C1_Witness ==
    \E i \in Insts : ReturnedFalse(i) /\ Probes(h[i].trace) = 4

\* C2: ensureApiIsAwake stops at the first ready probe: once a probe has
\* reported ready no wait and no probe follows, the k-th probe being the
\* first ready one it has issued k probes and k-1 waits, and the step in
\* which it returns true sends the auth request and leaves error alone.
C2_StopsAtFirstReady ==
    [][/\ \A i \in Insts :
            (h'[i] # h[i] /\ h'[i].isAwake) =>
                /\ h'[i].pc \in {"post", "setItem", "done"}
                /\ h'[i].authSent
                /\ h'[i].trace = ExpectedTrace(h'[i].attempts + 1)
                /\ Probes(h'[i].trace) = h'[i].attempts + 1
                /\ Waits(h'[i].trace) = h'[i].attempts
                /\ h'[i].attempts \in 0..maxAttempts
       /\ \A i \in Insts :
            (Probing(i) /\ h'[i].isAwake) =>
                /\ h'[i].pc = "post"
                /\ h'[i].trace = h[i].trace
                /\ error' = error
      ]_vars

\* probe 1 not ready, probe 2 ready: the auth request is out after 2 probes
C2_Witness ==
    \E i \in Insts :
        /\ h[i].pc = "post"
        /\ h[i].isAwake
        /\ h[i].attempts = 1
        /\ Probes(h[i].trace) = 2
        /\ error[h[i].screen] = ""

\* C8: when ensureApiIsAwake returns false, the submit handler sends no
\* auth request, sets error to the 'Unable to connect' message, writes no
\* credential, does not navigate, and leaves isLoading false.
C8_UnavailableShortCircuit ==
    [][/\ \A i \in Insts :
            (Probing(i) /\ ~Probing(i)' /\ ~h'[i].isAwake /\ h'[i].pc # "wait") =>
                /\ h'[i].pc = "done"
                /\ error'[h[i].screen] = UnableMsg
                /\ isLoading'[h[i].screen] = FALSE
                /\ token' = token
                /\ route' = route
       /\ \A i \in Insts :
            (h'[i] # h[i] /\ Returned(i)' /\ ~h'[i].isAwake) =>
                /\ h'[i].pc = "done"
                /\ ~h'[i].authSent
                /\ ~h'[i].stored
                /\ ~h'[i].navigated
      ]_vars

C8_Witness ==
    \E i \in Insts :
        /\ ReturnedFalse(i)
        /\ h[i].screen = "SignUp"
        /\ error["SignUp"] = UnableMsg
        /\ ~isLoading["SignUp"]
        /\ token = NoToken

\* C9: a probe that throws is treated like a not-ready answer: after either,
\* isAwake is false and the loop waits and probes again while attempts is
\* below the bound, and returns false at the bound; and when the probe that
\* follows a thrown one reports ready, ensureApiIsAwake returns true.
C9_ThrowIsNotReady ==
    [][\A i \in Insts :
         /\ (h'[i] # h[i] /\ h'[i].last \in {"throw", "notready"}) =>
               /\ ~h'[i].isAwake
               /\ IF h'[i].attempts < maxAttempts
                  THEN h'[i].pc \in {"wait", "probe"}
                  ELSE h'[i].pc = "done" /\ ~h'[i].authSent
         /\ (h[i].last = "throw" /\ Probing(i) /\ h'[i].last = "ready") =>
               /\ ReturnedTrue(i)'
               /\ h'[i].authSent
      ]_vars

\* a probe threw, the loop waited and the next probe is in flight
C9_Witness ==
    \E i \in Insts :
        /\ h[i].last = "throw"
        /\ h[i].pc = "probe"
        /\ h[i].trace = ExpectedTrace(h[i].attempts + 2)

\* C10 as stated: isLoading is true whenever a status probe or the auth
\* request of a submit handler is in flight.
C10_BusyWhileInFlight ==
    \A i \in Insts :
        h[i].pc \in {"probe0", "probe", "post"} => isLoading[h[i].screen]

(***************************************************************************)
(* Properties of the like and follow handlers and of the feed cache.       *)
(***************************************************************************)
\* call r is answered in this state and its continuation runs in this step
Handled(r) ==
    /\ r.stage = "answered"
    /\ \A q \in requests' : q.id # r.id

\* the success messages the handlers are meant to recognize
RecognizedSuccess(r) ==
    /\ r.resp.status = "ok"
    /\ IF r.kind = "like"
       THEN r.resp.message \in {<<"Post", "liked.">>, <<"Post", "unliked.">>}
       ELSE r.resp.message \in {<<"User", "followed">>, <<"User", "unfollowed">>}

\* C3: when the response to a like or follow call is a rejection, no
\* response, or a message that is not a recognized success, its handler
\* leaves posts, feed, userPosts and userInfo as they are and starts no call.
C3_FailedMutationNoChange ==
    [][\A r \in requests :
         (r.kind \in {"like", "follow"} /\ Handled(r) /\ ~RecognizedSuccess(r)) =>
             /\ posts' = posts
             /\ feed' = feed
             /\ userPosts' = userPosts
             /\ userInfo' = userInfo
             /\ isLoading' = isLoading
             /\ nextId' = nextId
             /\ requests' = requests \ {r}
      ]_vars

\* a rejected like of AllPostsScreen has been handled: posts is as loaded
\* and no call is in flight
C3_Witness ==
    /\ lastDone = [kind |-> "like", screen |-> "AllPosts", result |-> "failed"]
    /\ posts = PostsData
    /\ requests = {}

\* C4 as stated: once a confirmed like has been patched into the feed, the
\* response of a fetchFeed that was started before that confirmation does
\* not replace the feed with one in which the patched post has another
\* number of likes.
C4_NoStaleClobber ==
    [][\A r \in requests :
         (r.kind = "fetchFeed" /\ r.stale /\ Handled(r) /\ togg.n > 0) =>
             Len(LikesOf(feed', togg.post)) = Len(LikesOf(feed, togg.post))
      ]_vars

\* C5 as stated: the element the patch adds to likes after a confirmed like,
\* or removes from it, is the authenticated user's id, and the other posts
\* are unchanged.
C5_PatchUsesOwnId ==
    [][\A r \in requests :
         (/\ r.kind = "like" /\ r.screen = "Following"
          /\ Handled(r) /\ RecognizedSuccess(r)
          /\ r.post \in IdsOf(feed)) =>
             /\ \/ LikesOf(feed', r.post) = Append(LikesOf(feed, r.post), Me)
                \/ /\ Includes(LikesOf(feed, r.post), Me)
                   /\ LikesOf(feed', r.post) = Without(LikesOf(feed, r.post), Me)
             /\ \A p \in IdsOf(feed) \ {r.post} :
                    LikesOf(feed', p) = LikesOf(feed, p)
      ]_vars

SeqSet(arr) == {arr[k] : k \in 1..Len(arr)}

\* C6: after two confirmed like toggles of the same post, both patched into
\* the feed, the post's likes have the members and the size they had before
\* the first toggle.
C6_DoubleToggleRestores ==
    togg.n = 2 =>
        /\ SeqSet(LikesOf(feed, togg.post)) = SeqSet(togg.likes0)
        /\ Len(LikesOf(feed, togg.post)) = Len(togg.likes0)

C6_Witness ==
    /\ togg.n = 2
    /\ togg.post \in IdsOf(feed)
    /\ lastDone = [kind |-> "like", screen |-> "Following", result |-> "applied"]

\* C7: the patch changes only the likes of the post with the matching id:
\* the number of posts, their order and every other post are unchanged, the
\* matched post keeps its other fields, and a feed without the id is
\* unchanged.
C7_PatchFrame ==
    [][\A r \in requests :
         (/\ r.kind = "like" /\ r.screen = "Following"
          /\ Handled(r) /\ RecognizedSuccess(r)) =>
             /\ Len(feed') = Len(feed)
             /\ \A k \in 1..Len(feed) :
                    /\ feed'[k].id = feed[k].id
                    /\ feed'[k].user_id = feed[k].user_id
                    /\ feed[k].id # r.post => feed'[k] = feed[k]
                    /\ feed[k].id = r.post => feed'[k].likes # feed[k].likes
             /\ r.post \notin IdsOf(feed) => feed' = feed
      ]_vars

\* a confirmed like has been handled whose post is not in the feed, and the
\* feed still holds the other post
C7_Witness ==
    /\ lastDone = [kind |-> "like", screen |-> "Following", result |-> "applied"]
    /\ togg.n = 1
    /\ togg.post \notin IdsOf(feed)
    /\ feed # <<>>

(***************************************************************************)
(* Properties of the fetches, the calls and the triggers of the screens.   *)
(***************************************************************************)
\* C11: when the fetch of a scope fails (the token read fails, no response
\* arrives or the service rejects it), its continuation leaves every cache
\* as it is, sets no error state, and sets the screen's isLoading to false.
C11_FailedFetchKeepsCache ==
    [][\A r \in requests :
         (r.kind \in FetchKinds /\ Handled(r) /\ r.resp.status # "ok") =>
             /\ posts' = posts
             /\ feed' = feed
             /\ userPosts' = userPosts
             /\ userInfo' = userInfo
             /\ profile' = profile
             /\ error' = error
             /\ r.live => isLoading'[r.screen] = FALSE
      ]_vars

\* a fetchPosts of the loaded AllPosts tab has failed: posts is as loaded
\* and the list is on display again
C11_Witness ==
    /\ lastDone = [kind |-> "fetchPosts", screen |-> "AllPosts",
                   result |-> "failed"]
    /\ posts = PostsData
    /\ posts # <<>>
    /\ ~isLoading["AllPosts"]
    /\ requests = {}

\* C12 as stated: every call that has been sent to the service carries an
\* Authorization header with the token read from AsyncStorage.
C12_EveryCallAuthorized ==
    \A r \in requests :
        r.stage = "sent" => (r.auth = token /\ r.auth # NoToken)

\* C13 as stated: when the auth request of a submit handler does not end in
\* a stored token, the screen's error is a non-empty message (the service's
\* message, or a fallback when the response has none or none arrived).
C13_FailureShowsMessage ==
    [][\A i \in Insts :
         (h[i].pc = "post" /\ h'[i].pc = "done") =>
             /\ error'[h[i].screen] # ""
             /\ error'[h[i].screen] # Undefined
      ]_vars

\* C15: the token of an auth response is in AsyncStorage before the handler
\* navigates to MainTabs, so every call a main screen sends carries that
\* token, never none and never the token of a former session; and a response
\* without a token (or a failed request) writes no token and does not
\* navigate.
C15_TokenBeforeNavigation ==
    [][/\ (route' = "MainTabs" /\ route # "MainTabs") => token' = NewToken
       /\ \A q \in requests' : q.stage = "sent" => q.auth = NewToken
       /\ \A i \in Insts :
            (h[i].pc = "post" /\ h'[i].pc = "done") =>
                (token' = token /\ route' = route /\ ~h'[i].navigated)
      ]_vars

\* after a login AllPostsScreen's fetch has been sent with the new token
C15_Witness ==
    /\ route = "MainTabs"
    /\ \E i \in Insts : h[i].navigated /\ h[i].stored
    /\ \E r \in requests :
          r.kind = "fetchPosts" /\ r.stage = "sent" /\ r.auth = NewToken
    /\ token = NewToken

\* C16 as stated: when a confirmed like is patched into a feed that holds
\* what the service sent, the post's likes get one longer after
\* 'Post liked.' and one shorter after 'Post unliked.'.
C16_PatchMatchesServer ==
    [][\A r \in requests :
         (/\ r.kind = "like" /\ r.screen = "Following"
          /\ Handled(r) /\ RecognizedSuccess(r)
          /\ r.post \in IdsOf(feed) /\ togg.n = 0) =>
             Len(LikesOf(feed', r.post)) =
                 Len(LikesOf(feed, r.post))
                   + (IF r.resp.message = LikedMsg THEN 1 ELSE -1)
      ]_vars

\* C17 as stated: on UserProfileScreen, once no call is in flight and every
\* follow call was acknowledged with a success, userInfo.is_following is
\* what the service records.
C17_FollowMatchesServer ==
    (/\ route = "UserProfile"
     /\ userInfo # <<>>
     /\ requests = {}
     /\ ~hist.followFailed) =>
        userInfo[1].is_following = (ProfileUser \in srvFollowing)

\* the calls of scope sc that are at the service in this state
AtService(sc) ==
    {r \in requests : r.kind \in FetchKinds /\ Scope(r) = sc /\ r.stage = "sent"}

\* C18 as stated: each scope has at most one fetch in flight at any time.
C18_OneFetchPerScope ==
    \A sc \in Scopes : Cardinality(AtService(sc)) <= 1

\* C19: a fetchFeed response is applied when it arrives, whatever the order
\* in which the loads were started: setFeed gets its data also when a load
\* started later has been applied already.
C19_ArrivalOrderApplied ==
    [][\A r \in requests :
         (r.kind = "fetchFeed" /\ Handled(r) /\ r.resp.status = "ok") =>
             /\ feed' = r.resp.posts
             /\ hist.maxLoad[Scope(r)] > r.id =>
                    Scope(r) \in hist'.lateLoad
      ]_vars

\* two loads of the feed were in flight; the one started first was applied
\* last, and the feed holds its data, which is not what the service has now
C19_Witness ==
    /\ <<"Following", "fetchFeed">> \in hist.lateLoad
    /\ lastDone = [kind |-> "fetchFeed", screen |-> "Following",
                   result |-> "applied"]
    /\ togg.n = 0
    /\ feed # FeedData

\* C20 as stated: on ProfileScreen and UserProfileScreen isLoading is true
\* in every state in which fetchUserInfo or fetchUserPosts is in flight.
C20_BusyWhileEitherInFlight ==
    \A r \in requests :
        (/\ r.screen \in {"Profile", "UserProfile"}
         /\ r.kind \in {"fetchUserInfo", "fetchUserPosts"}
         /\ r.live
         /\ r.stage = "sent") => isLoading[r.screen]

\* the tab on display in the main tabs
FocusedTab == IF route = "MainTabs" THEN tab ELSE "none"
\* a fetch of screen s starts in this step
FetchStarts(s) ==
    \E q \in requests' \ requests : q.screen = s /\ q.kind \in FetchKinds

\* C14 as stated: a screen fetches when it mounts, and when a mounted tab
\* regains focus its fetch runs again (it starts in that step or its focus
\* listener has the event to deliver).
C14_RefetchOnFocus ==
    [][/\ \A s \in MainScreens :
            (s \in mounted' \ mounted) => FetchStarts(s)
       /\ (FocusedTab' # FocusedTab /\ FocusedTab' \in mounted') =>
               (FetchStarts(FocusedTab') \/ ListenerPending(FocusedTab)')
      ]_vars

(***************************************************************************)
(* Termination of the prober and the busy flags at rest.                   *)
(***************************************************************************)
\* ensureApiIsAwake of invocation i is running: a probe or the timer is
\* awaited
InProber(i) == h[i].pc \in {"probe0", "probe", "wait"}

\* C21: ensureApiIsAwake terminates whatever the probes answer: it never
\* issues more than maxAttempts + 1 probes, a running one returns, and it
\* returns false only after a wait and a further probe that was not ready,
\* never on the first probe alone.
C21_ProberTerminates ==
    /\ [](\A i \in Insts : Probes(h[i].trace) <= maxAttempts + 1)
    /\ [](\A i \in Insts :
            ReturnedFalse(i) =>
                /\ Waits(h[i].trace) >= 1
                /\ Probes(h[i].trace) >= 2
                /\ h[i].attempts >= 1
                /\ h[i].last \in {"notready", "throw"}
                /\ h[i].trace[Len(h[i].trace)].ev = "probe"
                /\ h[i].trace[Len(h[i].trace) - 1].ev = "wait")
    /\ \A i \in Insts : InProber(i) ~> Returned(i)

\* on LoginScreen the probes threw every time and ensureApiIsAwake has
\* returned false, after its last retry
C21_Witness ==
    \E i \in Insts :
        /\ ReturnedFalse(i)
        /\ h[i].screen = "Login"
        /\ h[i].last = "throw"
        /\ h[i].attempts = maxAttempts
        /\ Waits(h[i].trace) = maxAttempts

\* a handler of screen s has a call in flight or is about to issue one
Running(s) ==
    \/ \E i \in Insts : h[i].screen = s /\ h[i].pc \notin {"idle", "done"}
    \/ \E r \in requests : r.screen = s /\ r.live /\ r.kind \in FetchKinds

\* C22: the busy flag is never left stuck: whatever the outcomes were, once
\* no submit handler and no fetch of a screen is running, its isLoading is
\* false.
C22_BusyNeverStuck ==
    \A s \in Screens : ~Running(s) => ~isLoading[s]

\* after a login the first fetchPosts has failed: nothing is running and no
\* screen shows the overlay
C22_Witness ==
    /\ \E i \in Insts : h[i].pc = "done" /\ h[i].navigated /\ nextH = 2
    /\ lastDone = [kind |-> "fetchPosts", screen |-> "AllPosts",
                   result |-> "failed"]
    /\ \A s \in Screens : ~Running(s) /\ ~isLoading[s]

====
